---------------------------- MODULE Spec2Model ----------------------------
(***************************************************************************)
(* Smartcard Comparison Tool (sc_compare.py).                              *)
(*                                                                         *)
(* A Streamlit script: two uploaded tables, one identifier column chosen   *)
(* in each, the columns' values normalized to strings, and the two sets of *)
(* strings compared.  The script is re-run from its first line on every    *)
(* interaction; nothing but the widgets' state survives a run.             *)
(*                                                                         *)
(* Text is a sequence of one-character strings, so that strip(), lower(),  *)
(* substring search, number formatting and string ordering are computed    *)
(* character by character, as Python computes them.                        *)
(***************************************************************************)
EXTENDS Integers, Sequences, FiniteSets, TLC

VARIABLES
    \* ---- the session: widget state and what the last script run showed
    file1, file2,          \* the two file_uploader widgets: NoFile or a file
    col1_name, col2_name,  \* what the two selectboxes returned in the last run
    run_compare,           \* what st.button returned in the last run
    result,                \* the comparison the last run displayed, or NoResult
    warning,               \* whether the last run displayed st.warning
    last,                  \* the interaction that caused the last run
    \* ---- one call of a helper on inputs drawn from bounded sets
    pc,                    \* position of the call
    x, out, out2,          \* _norm: the cell value, its result, the result's result
    series1, series2,      \* the two chosen columns (df1[col1_name], df2[col2_name])
    norm_sc1, norm_sc2,    \* normalize_smartcards of each
    cmp,                   \* the comparison computed from them, or NoResult
    cols, default_col, index  \* guess_sc_col: column names, the guess, selectbox index

uiVars    == <<file1, file2, col1_name, col2_name, run_compare, result, warning, last>>
normVars  == <<x, out, out2>>
cmpVars   == <<series1, series2, norm_sc1, norm_sc2, cmp>>
guessVars == <<cols, default_col, index>>
vars      == <<uiVars, pc, normVars, cmpVars, guessVars>>

-----------------------------------------------------------------------------
(* Bounds of the model.                                                    *)

MaxInt       == 130   \* integer cells range over -MaxInt..MaxInt (plus a few large ones)
MaxTextLen   == 4     \* text cells: every string over TextAlphabet up to this length
MaxSeriesLen == 5     \* rows of the column given to normalize_smartcards alone
MaxRows1     == 3     \* rows of column 1 in a comparison
MaxRows2     == 2     \* rows of column 2 in a comparison
MaxCols      == 3     \* columns of the table given to guess_sc_col
MaxNegExp    == 7     \* fractional float cells go down to the order of 10^-MaxNegExp

(* Program constants.                                                      *)

SigDigits    == 15    \* the precision of f"{x:.15g}"
MinFixedExp  == -4    \* 'g' format: fixed notation iff MinFixedExp <= exponent < precision
MinExpDigits == 2     \* 'g' format: the exponent is written with at least two digits

-----------------------------------------------------------------------------
(* Characters and text.                                                    *)

\* The characters the model uses, in code-point order (ASCII).
Alphabet ==
    <<"\t", "\n", " ", "+", "-", ".",
      "0", "1", "2", "3", "4", "5", "6", "7", "8", "9",
      "A", "B", "C", "D", "E", "F", "G", "H", "I", "J", "K", "L", "M",
      "N", "O", "P", "Q", "R", "S", "T", "U", "V", "W", "X", "Y", "Z",
      "_",
      "a", "b", "c", "d", "e", "f", "g", "h", "i", "j", "k", "l", "m",
      "n", "o", "p", "q", "r", "s", "t", "u", "v", "w", "x", "y", "z">>

\* The rank of a character in code-point order.
CharCode(c) == CHOOSE i \in 1..Len(Alphabet) : Alphabet[i] = c

Whitespace == {"\t", "\n", " "}

DigitChars == <<"0", "1", "2", "3", "4", "5", "6", "7", "8", "9">>

DigitChar(d) == DigitChars[d + 1]

IsDigitChar(c) == \E d \in 0..9 : DigitChars[d + 1] = c

DigitValue(c) == CHOOSE d \in 0..9 : DigitChars[d + 1] = c

\* str.lower() on one character, then on a string.
LowerChar(c) ==
    IF CharCode(c) >= CharCode("A") /\ CharCode(c) <= CharCode("Z")
    THEN Alphabet[CharCode(c) - CharCode("A") + CharCode("a")]
    ELSE c

Lower(s) == [i \in 1..Len(s) |-> LowerChar(s[i])]

\* needle in hay (Python's substring test).
Contains(hay, needle) ==
    \E i \in 0..(Len(hay) - Len(needle)) :
        \A j \in 1..Len(needle) : hay[i + j] = needle[j]

RECURSIVE LStrip(_)
LStrip(s) ==
    IF s # <<>> /\ Head(s) \in Whitespace THEN LStrip(Tail(s)) ELSE s

RECURSIVE RStrip(_)
RStrip(s) ==
    IF s # <<>> /\ s[Len(s)] \in Whitespace
    THEN RStrip(SubSeq(s, 1, Len(s) - 1))
    ELSE s

\* A strip that removes at most one character at each end.
StripOnce(s) ==
    LET l == IF s # <<>> /\ Head(s) \in Whitespace THEN Tail(s) ELSE s
    IN  IF l # <<>> /\ l[Len(l)] \in Whitespace
        THEN SubSeq(l, 1, Len(l) - 1)
        ELSE l

\* str.strip(): leading and trailing whitespace removed.
Strip(s) == RStrip(LStrip(s))

\* Python's < on str: by code point, a proper prefix first.
RECURSIVE LexLess(_, _)
LexLess(a, b) ==
    IF b = <<>> THEN FALSE
    ELSE IF a = <<>> THEN TRUE
    ELSE IF Head(a) # Head(b) THEN CharCode(Head(a)) < CharCode(Head(b))
    ELSE LexLess(Tail(a), Tail(b))

RECURSIVE Zeros(_)
Zeros(n) == IF n <= 0 THEN <<>> ELSE <<"0">> \o Zeros(n - 1)

-----------------------------------------------------------------------------
(* Cell values: the Python objects pandas hands to _norm.                  *)
(*                                                                         *)
(* A finite float is the digits repr() prints for it: the value is         *)
(* (+/-) d1.d2...dn * 10^X with ds = <<d1,...,dn>>, d1 # 0 and dn # 0      *)
(* (zero is ds = <<0>>, X = 0).  repr round-trips, so the float is whole   *)
(* exactly when no digit stands right of the units place.                  *)

None == [kind |-> "none"]

NaN == [kind |-> "nan"]

IntV(n) == [kind |-> "int", n |-> n]

BoolV(b) == [kind |-> "bool", b |-> b]

FloatV(neg, ds, X) == [kind |-> "float", neg |-> neg, ds |-> ds, X |-> X]

InfV(neg) == [kind |-> "inf", neg |-> neg]

Str(s) == [kind |-> "str", s |-> s]

\* pd.isna(x)
isna(v) == v.kind \in {"none", "nan"}

\* isinstance(x, (int, np.integer)): bool is a subclass of int.
IsIntInstance(v) == v.kind \in {"int", "bool"}

\* isinstance(x, float)
IsFloatInstance(v) == v.kind \in {"float", "inf", "nan"}

RECURSIVE NatStr(_)
NatStr(n) ==
    IF n < 10 THEN <<DigitChar(n)>>
    ELSE NatStr(n \div 10) \o <<DigitChar(n % 10)>>

\* str(n) for an int.
IntStr(n) == IF n < 0 THEN <<"-">> \o NatStr(-n) ELSE NatStr(n)

\* float.is_integer()
is_integer(f) == f.kind = "float" /\ Len(f.ds) - 1 <= f.X

RECURSIVE DigitsValue(_)
DigitsValue(ds) ==
    IF ds = <<>> THEN 0
    ELSE DigitsValue(SubSeq(ds, 1, Len(ds) - 1)) * 10 + ds[Len(ds)]

RECURSIVE Pow10(_)
Pow10(k) == IF k <= 0 THEN 1 ELSE 10 * Pow10(k - 1)

\* int(x) for a whole float.
IntOfFloat(f) ==
    LET m == DigitsValue(f.ds) * Pow10(f.X - (Len(f.ds) - 1))
    IN  IF f.neg THEN -m ELSE m

\* repr's answer for a whole float: "123.0".  What line 64 avoids.
WholeFloatRepr(f) ==
    (IF f.neg THEN <<"-">> ELSE <<>>)
        \o NatStr(DigitsValue(f.ds) * Pow10(f.X - (Len(f.ds) - 1)))
        \o <<".", "0">>

\* str(int(x)) for a whole float: line 64.
WholeFloatStr(f) == IntStr(IntOfFloat(f))

(* f"{x:.15g}": round to SigDigits significant digits (half to even on the *)
(* digits), drop trailing zeros, then fixed notation when                  *)
(* MinFixedExp <= exponent < SigDigits and scientific notation otherwise.  *)

RECURSIVE StripTrailingZeros(_)
StripTrailingZeros(ds) ==
    IF Len(ds) > 1 /\ ds[Len(ds)] = 0
    THEN StripTrailingZeros(SubSeq(ds, 1, Len(ds) - 1))
    ELSE ds

\* ds + 1 in the last place; a carry out of the first place is the flag.
RECURSIVE Increment(_)
Increment(ds) ==
    IF ds = <<>> THEN [ds |-> <<>>, carry |-> TRUE]
    ELSE IF ds[Len(ds)] < 9
         THEN [ds |-> [ds EXCEPT ![Len(ds)] = @ + 1], carry |-> FALSE]
         ELSE LET r == Increment(SubSeq(ds, 1, Len(ds) - 1))
              IN  [ds |-> r.ds \o <<0>>, carry |-> r.carry]

RoundSig(ds, X, p) ==
    IF Len(ds) <= p THEN [ds |-> ds, X |-> X]
    ELSE LET head == SubSeq(ds, 1, p)
             rest == SubSeq(ds, p + 1, Len(ds))
             more == \E i \in 2..Len(rest) : rest[i] # 0
             up   == \/ rest[1] > 5
                     \/ rest[1] = 5 /\ (more \/ head[p] % 2 = 1)
             inc  == Increment(head)
         IN  IF ~up THEN [ds |-> head, X |-> X]
             ELSE IF inc.carry THEN [ds |-> <<1>> \o inc.ds, X |-> X + 1]
             ELSE [ds |-> inc.ds, X |-> X]

DigitText(ds) == [i \in 1..Len(ds) |-> DigitChar(ds[i])]

\* Fixed notation of d1.d2...dn * 10^X.
FixedText(ds, X) ==
    IF X < 0 THEN <<"0", ".">> \o Zeros(-X - 1) \o DigitText(ds)
    ELSE IF Len(ds) <= X + 1 THEN DigitText(ds) \o Zeros(X + 1 - Len(ds))
    ELSE DigitText(SubSeq(ds, 1, X + 1)) \o <<".">>
             \o DigitText(SubSeq(ds, X + 2, Len(ds)))

\* Scientific notation: d1[.d2...dn]e(+|-)XX.
SciText(ds, X) ==
    LET e   == NatStr(IF X < 0 THEN -X ELSE X)
        pad == Zeros(MinExpDigits - Len(e))
    IN  <<DigitChar(ds[1])>>
            \o (IF Len(ds) > 1 THEN <<".">> \o DigitText(Tail(ds)) ELSE <<>>)
            \o <<"e", IF X < 0 THEN "-" ELSE "+">> \o pad \o e

\* f"{x:.15g}" of a float: line 66.
Format15g(f) ==
    IF f.kind = "inf"
    THEN (IF f.neg THEN <<"-">> ELSE <<>>) \o <<"i", "n", "f">>
    ELSE LET r  == RoundSig(f.ds, f.X, SigDigits)
             ds == StripTrailingZeros(r.ds)
         IN  (IF f.neg THEN <<"-">> ELSE <<>>)
                 \o (IF MinFixedExp <= r.X /\ r.X < SigDigits
                     THEN FixedText(ds, r.X)
                     ELSE SciText(ds, r.X))

\* str(x) of anything that is neither null, int nor float.
PyStr(v) ==
    IF v.kind = "bool"
    THEN (IF v.b THEN <<"T", "r", "u", "e">> ELSE <<"F", "a", "l", "s", "e">>)
    ELSE IF v.kind = "int" THEN IntStr(v.n)
    ELSE v.s

\* normalize_smartcards._norm
_norm(v) ==
    IF isna(v) THEN None
    ELSE IF IsIntInstance(v) THEN Str(PyStr(v))
    ELSE IF IsFloatInstance(v)
         THEN IF is_integer(v) THEN Str(WholeFloatStr(v)) ELSE Str(Format15g(v))
    ELSE Str(Strip(PyStr(v)))

-----------------------------------------------------------------------------
(* normalize_smartcards and the comparison.                                *)

NotNa(v) == ~isna(v)

\* series.map(_norm)
MapNorm(series) == [i \in 1..Len(series) |-> _norm(series[i])]

\* A dropna that drops nothing.
KeepNa(seq) == seq

\* Series.dropna(): the null entries removed, the others in their order.
dropna(seq) == SelectSeq(seq, NotNa)

normalize_smartcards(series) == dropna(MapNorm(series))

\* set(series): the distinct values.
SetOf(seq) == {seq[i] : i \in 1..Len(seq)}

\* An order that puts a shorter string first (numeric order on digit strings).
ShorterFirstLess(a, b) ==
    Len(a.s) < Len(b.s) \/ (Len(a.s) = Len(b.s) /\ LexLess(a.s, b.s))

\* a < b for two str objects, as sorted() compares them.
StrLess(a, b) == LexLess(a.s, b.s)

\* sorted(S) for a set of str: the least element first, then the rest.
RECURSIVE sorted(_)
sorted(S) ==
    IF S = {} THEN <<>>
    ELSE LET m == CHOOSE a \in S : \A b \in S \ {a} : StrLess(a, b)
         IN  <<m>> \o sorted(S \ {m})

\* sc1.intersection(sc2)
Common(sc1, sc2) == sc1 \cap sc2

\* sc1 - sc2
OnlyIn1(sc1, sc2) == sc1 \ sc2

\* The difference taken the wrong way round.
OnlyIn2Swapped(sc1, sc2) == sc1 \ sc2

\* sc2 - sc1
OnlyIn2(sc1, sc2) == sc2 \ sc1

\* A union count that adds the two sizes.
UnionCountAdded(sc1, sc2) == Cardinality(sc1) + Cardinality(sc2)

\* len(sc1.union(sc2))
UnionCount(sc1, sc2) == Cardinality(sc1 \cup sc2)

\* Lines 156-180: the three lists and the four numbers of the summary cards.
Comparison(column1, column2) ==
    LET n1  == normalize_smartcards(column1)
        n2  == normalize_smartcards(column2)
        sc1 == SetOf(n1)
        sc2 == SetOf(n2)
        common == sorted(Common(sc1, sc2))
    IN  [ kind       |-> "result",
          common     |-> common,
          only_in_1  |-> sorted(OnlyIn1(sc1, sc2)),
          only_in_2  |-> sorted(OnlyIn2(sc1, sc2)),
          total1     |-> Cardinality(sc1),
          total2     |-> Cardinality(sc2),
          in_both    |-> Len(common),
          total_unique |-> UnionCount(sc1, sc2) ]

-----------------------------------------------------------------------------
(* guess_sc_col and the select box's default index.                        *)

Keyword == <<"s", "m", "a", "r", "t", "c", "a", "r", "d">>

\* "smartcard" in c.lower()
IsSmartcardName(c) == Contains(Lower(c.s), Keyword)

\* The test without .lower().
GuessCaseSensitive(columns) ==
    LET hits == {i \in 1..Len(columns) : Contains(columns[i].s, Keyword)}
    IN  IF hits # {} THEN columns[CHOOSE i \in hits : \A j \in hits : i <= j]
        ELSE IF Len(columns) > 0 THEN columns[1]
        ELSE None

guess_sc_col(columns) ==
    LET hits == {i \in 1..Len(columns) : IsSmartcardName(columns[i])}
    IN  IF hits # {} THEN columns[CHOOSE i \in hits : \A j \in hits : i <= j]
        ELSE IF Len(columns) > 0 THEN columns[1]
        ELSE None

\* Python truth of a column name or None: None and "" are false.
Truthy(v) == v # None /\ ~(v.kind = "str" /\ v.s = <<>>)

\* list.index(v): the first position of v, counted from 0.
ListIndex(list, v) ==
    (CHOOSE i \in 1..Len(list) :
        list[i] = v /\ \A j \in 1..(i - 1) : list[j] # v) - 1

\* list(df.columns).index(default_col) if default_col else 0
DefaultIndex(columns, default) ==
    IF Truthy(default) THEN ListIndex(columns, default) ELSE 0

-----------------------------------------------------------------------------
(* One run of the script, top to bottom.                                   *)
(*                                                                         *)
(* An uploaded file is its name and the table its bytes parse to.  A table *)
(* is its column names and, per column, the series of its cells.           *)

NoFile == [kind |-> "nofile"]

NoResult == [kind |-> "noresult"]

Pending == [kind |-> "pending"]

\* load_table: None without a file, else what read_csv / read_excel returns.
load_table(uploaded_file) ==
    IF uploaded_file = NoFile THEN None ELSE uploaded_file.table

\* df[col_name]
Column(df, col_name) == df.data[ListIndex(df.columns, col_name) + 1]

\* st.selectbox(options, index): the user's choice while it is one of the
\* options, else the option at the default index; None without options.
selectbox(options, default_index, chosen) ==
    IF options = <<>> THEN None
    ELSE IF \E i \in 1..Len(options) : options[i] = chosen THEN chosen
    ELSE options[default_index + 1]

\* A trigger that stays on once both tables are there.
RunCompareAlways(df1, df2, pressed) == df1 # None /\ df2 # None

\* Lines 100-121: the button exists, and can be pressed, only with both tables.
RunCompare(df1, df2, pressed) ==
    IF df1 # None /\ df2 # None THEN pressed ELSE FALSE

\* Line 154.
ShowsResult(df1, df2, c1, c2, rc) ==
    df1 # None /\ df2 # None /\ Truthy(c1) /\ Truthy(c2) /\ rc

\* The warning under a plain `if run_compare`.
ShowsWarningAlways(df1, df2, c1, c2, rc) == rc

\* Line 232: elif run_compare.
ShowsWarning(df1, df2, c1, c2, rc) ==
    ~ShowsResult(df1, df2, c1, c2, rc) /\ rc

\* The script run on the widgets' state: the two uploaders, the two select
\* boxes' stored choices (Pending: none stored) and whether the button was
\* the widget clicked.
ScriptRun(f1, f2, chosen1, chosen2, pressed) ==
    LET df1  == load_table(f1)
        df2  == load_table(f2)
        both == df1 # None /\ df2 # None
        c1   == IF both
                THEN selectbox(df1.columns,
                               DefaultIndex(df1.columns, guess_sc_col(df1.columns)),
                               chosen1)
                ELSE None
        c2   == IF both
                THEN selectbox(df2.columns,
                               DefaultIndex(df2.columns, guess_sc_col(df2.columns)),
                               chosen2)
                ELSE None
        rc   == RunCompare(df1, df2, pressed)
    IN  [ col1_name   |-> c1,
          col2_name   |-> c2,
          run_compare |-> rc,
          result      |-> IF ShowsResult(df1, df2, c1, c2, rc)
                          THEN Comparison(Column(df1, c1), Column(df2, c2))
                          ELSE NoResult,
          warning     |-> ShowsWarning(df1, df2, c1, c2, rc) ]

-----------------------------------------------------------------------------
(* The cell values a parsed column can hold.                               *)

RECURSIVE NatDigits(_)
NatDigits(n) ==
    IF n < 10 THEN <<n>> ELSE NatDigits(n \div 10) \o <<n % 10>>

\* The float64 pandas makes of the integer n (a numeric column with a gap).
FloatOfInt(n) ==
    LET m == IF n < 0 THEN -n ELSE n
    IN  FloatV(n < 0, StripTrailingZeros(NatDigits(m)), Len(NatDigits(m)) - 1)

IntInputs == (-MaxInt..MaxInt) \cup {1000, -54321, 1000000, 1234567890}

WholeFloatInputs ==
    {FloatOfInt(n) : n \in IntInputs} \cup {FloatV(TRUE, <<0>>, 0)}

\* Decimals of at most three digits at every order of magnitude down to
\* 10^-MaxNegExp: 1.3, 0.25, 0.00013, ...
ShortFracInputs ==
    LET all == {FloatV(neg, NatDigits(m), X) :
                    neg \in BOOLEAN,
                    m \in {k \in 1..MaxInt : k % 10 # 0},
                    X \in -MaxNegExp..1}
    IN  {f \in all : ~is_integer(f)}

Nines(n) == [i \in 1..n |-> 9]

\* Floats with long expansions and large magnitudes, as repr prints them.
LongFracInputs ==
    { FloatV(FALSE, <<1, 2, 3, 4, 5, 6>>, 2),                  \* 123.456
      FloatV(FALSE, <<1, 2, 3, 4, 5, 6, 7, 8, 9>>, 7),         \* 12345678.9
      FloatV(FALSE, <<1,2,3,4,5,6,7,8,9,0,1,2,3,4,5,6,5>>, 15),\* 1234567890123456.5
      FloatV(FALSE, <<1,2,3,4,5,6,7,8,9,0,1,2,3,4,5,5>>, 14),  \* 123456789012345.5
      FloatV(FALSE, <<3,0,0,0,0,0,0,0,0,0,0,0,0,0,0,0,4>>, -1),\* 0.1 + 0.2
      FloatV(FALSE, <<1,0,0,0,0,0,0,0,0,0,0,0,0,0,0,0,2>>, 0), \* 1 + 2^-52
      FloatV(FALSE, Nines(15) \o <<5>>, 13),                   \* 99999999999999.95
      FloatV(TRUE,  Nines(16), 14),                            \* -999999999999999.9
      FloatV(FALSE, Nines(16), -5) }                           \* 9.999999999999999e-05

TextAlphabet == {" ", "0", "7"}

RECURSIVE TextsUpTo(_)
TextsUpTo(n) ==
    IF n = 0 THEN {<<>>}
    ELSE LET shorter == TextsUpTo(n - 1)
         IN  shorter \cup {Append(t, c) : t \in shorter, c \in TextAlphabet}

TextInputs ==
    {Str(t) : t \in TextsUpTo(MaxTextLen)}
        \cup { Str(<<"\t", "A", "B", "-", "1", "\n">>), Str(<<"n", "a", "n">>),
               Str(<<"1", "e", "5">>), Str(<<"1", "2", ".", "0">>) }

CellValues ==
    {None, NaN, BoolV(TRUE), BoolV(FALSE), InfV(FALSE), InfV(TRUE)}
        \cup {IntV(n) : n \in IntInputs}
        \cup WholeFloatInputs \cup ShortFracInputs \cup LongFracInputs
        \cup TextInputs

-----------------------------------------------------------------------------
(* Idle values of the variables a specification does not use.              *)

UiIdle ==
    /\ file1 = NoFile /\ file2 = NoFile
    /\ col1_name = None /\ col2_name = None
    /\ run_compare = FALSE /\ result = NoResult /\ warning = FALSE
    /\ last = "start"

NormIdle == x = Pending /\ out = Pending /\ out2 = Pending

CmpIdle ==
    /\ series1 = <<>> /\ series2 = <<>>
    /\ norm_sc1 = Pending /\ norm_sc2 = Pending /\ cmp = NoResult

GuessIdle == cols = <<>> /\ default_col = Pending /\ index = -1

-----------------------------------------------------------------------------
(* _norm on one cell value, and on the text it produced.                   *)

NormInit ==
    /\ pc = "start"
    /\ x \in CellValues /\ out = Pending /\ out2 = Pending
    /\ UiIdle /\ CmpIdle /\ GuessIdle

\* series.map(_norm) reaches the cell.
NormValue ==
    /\ pc = "start"
    /\ out' = _norm(x)
    /\ pc' = "normalized"
    /\ UNCHANGED <<x, out2, uiVars, cmpVars, guessVars>>

\* The text is a cell of a later column.
NormAgain ==
    /\ pc = "normalized"
    /\ out # None
    /\ out2' = _norm(out)
    /\ pc' = "renormalized"
    /\ UNCHANGED <<x, out, uiVars, cmpVars, guessVars>>

NormNext == NormValue \/ NormAgain

SpecNorm == NormInit /\ [][NormNext]_vars

(* What is claimed of _norm.                                               *)

RECURSIVE ParseNat(_)
ParseNat(s) ==
    IF s = <<>> THEN 0
    ELSE ParseNat(SubSeq(s, 1, Len(s) - 1)) * 10 + DigitValue(s[Len(s)])

IsDigitString(s) == s # <<>> /\ \A i \in 1..Len(s) : IsDigitChar(s[i])

\* s is the decimal numeral of the integer n: an optional minus sign, then
\* digits with no leading zero, reading as |n|.
IsDecimalOf(s, n) ==
    LET body == IF n < 0 /\ s # <<>> THEN Tail(s) ELSE s
    IN  /\ n < 0 => (s # <<>> /\ Head(s) = "-")
        /\ IsDigitString(body)
        /\ Len(body) > 1 => body[1] # "0"
        /\ ParseNat(body) = (IF n < 0 THEN -n ELSE n)

\* The float f is whole and equal to the integer n (-0.0 equals 0).
WholeValueIs(f, n) ==
    f.kind = "float" /\ (f = FloatOfInt(n) \/ (n = 0 /\ f.ds = <<0>>))

\* C4: an integer cell n and the whole float cell equal to n both normalize
\* to the decimal numeral of n, hence to the same string.
C4_IntAndWholeFloatAgree ==
    pc # "start" =>
        /\ x.kind = "int" =>
              /\ out.kind = "str"
              /\ IsDecimalOf(out.s, x.n)
              /\ out = _norm(FloatOfInt(x.n))
        /\ \A n \in IntInputs :
              WholeValueIs(x, n) => (out.kind = "str" /\ IsDecimalOf(out.s, n))

C4_Witness ==
    /\ pc # "start"
    /\ x = FloatV(FALSE, <<1, 2, 3>>, 2)
    /\ out = Str(<<"1", "2", "3">>)
    /\ out = _norm(IntV(123))

\* C8: every non-null value normalizes to a text that normalizes to itself,
\* and a pure digit string (leading zeros included) is returned unchanged.
C8_NormIdempotent ==
    /\ (pc # "start" /\ ~isna(x)) => out.kind = "str"
    /\ pc = "renormalized" => out2 = out
    /\ (pc # "start" /\ x.kind = "str" /\ IsDigitString(x.s)) => out = x

C8_Witness ==
    /\ pc = "renormalized"
    /\ x = Str(<<"0", "0", "7">>)
    /\ out = x /\ out2 = x

NoExponentMarker(s) == \A i \in 1..Len(s) : s[i] \in {"-", "."} \/ IsDigitChar(s[i])

NoTrailingZeros(s) ==
    (\E i \in 1..Len(s) : s[i] = ".") => s[Len(s)] \notin {"0", "."}

SignificantDigits(s) ==
    LET digits == SelectSeq(s, IsDigitChar)
        first  == CHOOSE i \in 1..(Len(digits) + 1) :
                      /\ \A j \in 1..(i - 1) : digits[j] = "0"
                      /\ i <= Len(digits) => digits[i] # "0"
    IN  Len(digits) - (first - 1)

\* C9: a float with a fractional part normalizes to a plain decimal string:
\* no exponent marker, no added trailing zeros, at most 15 significant
\* digits, whatever its magnitude.
C9_PlainDecimalAtEveryMagnitude ==
    (pc # "start" /\ x.kind = "float" /\ ~is_integer(x)) =>
        /\ out.kind = "str"
        /\ NoExponentMarker(out.s)
        /\ NoTrailingZeros(out.s)
        /\ SignificantDigits(out.s) <= SigDigits

-----------------------------------------------------------------------------
(* normalize_smartcards on one column.                                     *)

RECURSIVE SeqsUpTo(_, _)
SeqsUpTo(S, n) ==
    IF n = 0 THEN {<<>>}
    ELSE LET shorter == SeqsUpTo(S, n - 1)
         IN  shorter \cup {Append(q, v) : q \in shorter, v \in S}

SeriesValues == {None, IntV(10), FloatOfInt(10), Str(<<"2", " ">>)}

SeriesInit ==
    /\ pc = "start"
    /\ series1 \in SeqsUpTo(SeriesValues, MaxSeriesLen)
    /\ series2 = <<>>
    /\ norm_sc1 = Pending /\ norm_sc2 = Pending /\ cmp = NoResult
    /\ UiIdle /\ NormIdle /\ GuessIdle

NormalizeSeries ==
    /\ pc = "start"
    /\ norm_sc1' = normalize_smartcards(series1)
    /\ pc' = "normalized"
    /\ UNCHANGED <<series1, series2, norm_sc2, cmp, uiVars, normVars, guessVars>>

SpecSeries == SeriesInit /\ [][NormalizeSeries]_vars

\* The positions of the non-null cells of a column, and the k-th of them.
NonNull(series) == {i \in 1..Len(series) : series[i].kind \notin {"none", "nan"}}

KthNonNull(series, k) ==
    CHOOSE i \in NonNull(series) :
        Cardinality({j \in NonNull(series) : j <= i}) = k

\* C5: the output holds one text per non-null cell, in the cells' order,
\* duplicates kept, and no null.
C5_OnePerNonNullInOrder ==
    pc = "normalized" =>
        /\ Len(norm_sc1) = Cardinality(NonNull(series1))
        /\ \A k \in 1..Len(norm_sc1) :
              /\ norm_sc1[k].kind = "str"
              /\ norm_sc1[k] = _norm(series1[KthNonNull(series1, k)])

\* Five cells, two of them null, the other three normalizing to one text.
C5_Witness ==
    /\ pc = "normalized"
    /\ series1 = <<IntV(10), None, FloatOfInt(10), None, IntV(10)>>
    /\ norm_sc1 = <<Str(<<"1", "0">>), Str(<<"1", "0">>), Str(<<"1", "0">>)>>

-----------------------------------------------------------------------------
(* The comparison of two columns.                                          *)

CompareValues ==
    {None, IntV(10), FloatOfInt(10), Str(<<"2">>), Str(<<" ", "1", " ">>)}

CompareInit ==
    /\ pc = "start"
    /\ series1 \in SeqsUpTo(CompareValues, MaxRows1)
    /\ series2 \in SeqsUpTo(CompareValues, MaxRows2)
    /\ norm_sc1 = Pending /\ norm_sc2 = Pending /\ cmp = NoResult
    /\ UiIdle /\ NormIdle /\ GuessIdle

Compare ==
    /\ pc = "start"
    /\ norm_sc1' = normalize_smartcards(series1)
    /\ norm_sc2' = normalize_smartcards(series2)
    /\ cmp' = Comparison(series1, series2)
    /\ pc' = "compared"
    /\ UNCHANGED <<series1, series2, uiVars, normVars, guessVars>>

SpecCompare == CompareInit /\ [][Compare]_vars

\* The Identifier Set of a column: the normalized texts of its non-null cells.
IdentifierSet(series) == {_norm(series[i]) : i \in NonNull(series)}

Elems(list) == {list[i] : i \in 1..Len(list)}

\* C1: the three lists are pairwise disjoint and together hold exactly the
\* identifiers of the two columns.
C1_ListsPartitionUnion ==
    pc = "compared" =>
        /\ Elems(cmp.common) \cap Elems(cmp.only_in_1) = {}
        /\ Elems(cmp.common) \cap Elems(cmp.only_in_2) = {}
        /\ Elems(cmp.only_in_1) \cap Elems(cmp.only_in_2) = {}
        /\ Elems(cmp.common) \cup Elems(cmp.only_in_1) \cup Elems(cmp.only_in_2)
              = IdentifierSet(series1) \cup IdentifierSet(series2)

\* An integer and the equal float are one identifier; all three lists occupied.
C1_Witness ==
    /\ pc = "compared"
    /\ series1 = <<IntV(10), None, Str(<<"2">>)>>
    /\ series2 = <<FloatOfInt(10), Str(<<" ", "1", " ">>)>>
    /\ cmp.common = <<Str(<<"1", "0">>)>>
    /\ cmp.only_in_1 = <<Str(<<"2">>)>>
    /\ cmp.only_in_2 = <<Str(<<"1">>)>>

\* C2: the four numbers are |A|, |B|, |A \cap B| and |A \cup B|; the union
\* count is the two sizes minus the common count, and the common count is
\* the length of the common list.
C2_SummaryCounts ==
    pc = "compared" =>
        LET A == IdentifierSet(series1)
            B == IdentifierSet(series2)
        IN  /\ cmp.total1 = Cardinality(A)
            /\ cmp.total2 = Cardinality(B)
            /\ cmp.in_both = Cardinality(A \cap B)
            /\ cmp.total_unique = Cardinality(A \cup B)
            /\ cmp.total_unique = cmp.total1 + cmp.total2 - cmp.in_both
            /\ cmp.in_both = Len(cmp.common)

\* Duplicates in column 1, one identifier in both columns.
C2_Witness ==
    /\ pc = "compared"
    /\ series1 = <<IntV(10), IntV(10), Str(<<"2">>)>>
    /\ series2 = <<FloatOfInt(10), Str(<<" ", "1", " ">>)>>
    /\ cmp.total1 = 2 /\ cmp.total2 = 2
    /\ cmp.in_both = 1 /\ cmp.total_unique = 3

\* a before b in ordinal string order: at the first position where they
\* differ a has the smaller code point, or a is a proper prefix of b.
OrdinalBefore(a, b) ==
    \E k \in 0..Len(a) :
        /\ k <= Len(b)
        /\ \A i \in 1..k : a[i] = b[i]
        /\ \/ k = Len(a) /\ k < Len(b)
           \/ k < Len(a) /\ k < Len(b) /\ CharCode(a[k + 1]) < CharCode(b[k + 1])

StrictlyAscending(list) ==
    \A i \in 1..(Len(list) - 1) : OrdinalBefore(list[i].s, list[i + 1].s)

\* C6: each list is strictly ascending in ordinal string order (so it
\* repeats nothing): "1", "10", "2", not 1, 2, 10.
C6_ListsSortedLexicographically ==
    pc = "compared" =>
        /\ StrictlyAscending(cmp.common)
        /\ StrictlyAscending(cmp.only_in_1)
        /\ StrictlyAscending(cmp.only_in_2)

C6_Witness ==
    /\ pc = "compared"
    /\ series1 = <<IntV(10), Str(<<"2">>), Str(<<" ", "1", " ">>)>>
    /\ series2 = <<>>
    /\ cmp.only_in_1 = <<Str(<<"1">>), Str(<<"1", "0">>), Str(<<"2">>)>>

-----------------------------------------------------------------------------
(* guess_sc_col on the column names of one table.                          *)

ColumnNames ==
    { Str(<<"i", "d">>),
      Str(<<"S", "m", "a", "r", "t", "c", "a", "r", "d">>),
      Str(<<"S", "C", "_", "S", "M", "A", "R", "T", "C", "A", "R", "D">>),
      Str(<<"s", "m", "a", "r", "t", "c", "a", "r">>),
      Str(<<"s", "m", "a", "r", "t", " ", "c", "a", "r", "d">>) }

GuessInit ==
    /\ pc = "start"
    /\ cols \in SeqsUpTo(ColumnNames, MaxCols)
    /\ default_col = Pending /\ index = -1
    /\ UiIdle /\ NormIdle /\ CmpIdle

\* Lines 104 and 110.
Guess ==
    /\ pc = "start"
    /\ default_col' = guess_sc_col(cols)
    /\ index' = DefaultIndex(cols, guess_sc_col(cols))
    /\ pc' = "guessed"
    /\ UNCHANGED <<cols, uiVars, normVars, cmpVars>>

SpecGuess == GuessInit /\ [][Guess]_vars

\* The name, lowercased letter by letter, holds the keyword at some offset.
HasKeyword(c) ==
    \E i \in 1..(Len(c.s) - Len(Keyword) + 1) :
        SubSeq(Lower(c.s), i, i + Len(Keyword) - 1) = Keyword

\* C7: the guess is the first name holding "smartcard" in any case, else the
\* first name, else nothing; a guess is a name of the list and the default
\* index is its position in the list.
C7_GuessAndDefaultIndex ==
    pc = "guessed" =>
        LET hits == {i \in 1..Len(cols) : HasKeyword(cols[i])}
        IN  /\ hits # {} =>
                  \E i \in hits : /\ \A j \in hits : i <= j
                                  /\ default_col = cols[i]
            /\ (hits = {} /\ cols # <<>>) => default_col = cols[1]
            /\ cols = <<>> => default_col = None
            /\ default_col # None =>
                  /\ \E i \in 1..Len(cols) : cols[i] = default_col
                  /\ index \in 0..(Len(cols) - 1)
                  /\ cols[index + 1] = default_col

C7_Witness ==
    /\ pc = "guessed"
    /\ cols = << Str(<<"i", "d">>),
                 Str(<<"S", "C", "_", "S", "M", "A", "R", "T", "C", "A", "R", "D">>),
                 Str(<<"S", "m", "a", "r", "t", "c", "a", "r", "d">>) >>
    /\ default_col = cols[2]
    /\ index = 1

-----------------------------------------------------------------------------
(* The session: every interaction changes one widget and re-runs the       *)
(* script.  The two uploaders hold different files (the two select boxes   *)
(* are told apart by the file name in their label), and every file parses. *)

TableA ==
    [ columns |-> << Str(<<"i", "d">>),
                     Str(<<"S", "m", "a", "r", "t", "c", "a", "r", "d">>) >>,
      data    |-> << <<IntV(1), IntV(2), IntV(3)>>,
                     <<IntV(10), IntV(10), Str(<<"2">>)>> >> ]

TableB ==
    [ columns |-> << Str(<<"i", "d">>),
                     Str(<<"S", "C", "_", "S", "M", "A", "R", "T", "C", "A", "R", "D">>),
                     Str(<<"s", "m", "a", "r", "t", "c", "a", "r">>) >>,
      data    |-> << <<IntV(1), IntV(2)>>,
                     <<FloatOfInt(10), None>>,
                     <<Str(<<" ", "1", " ">>), Str(<<"2">>)>> >> ]

TableC ==
    [ columns |-> << Str(<<"s", "m", "a", "r", "t", " ", "c", "a", "r", "d">>),
                     Str(<<"i", "d">>) >>,
      data    |-> << <<None, NaN>>,
                     <<IntV(2), IntV(1)>> >> ]

\* A sheet without cells: a table with no columns.
TableE == [columns |-> <<>>, data |-> <<>>]

Files ==
    { [kind |-> "file", name |-> <<"a", ".", "c", "s", "v">>, table |-> TableA],
      [kind |-> "file", name |-> <<"b", ".", "x", "l", "s", "x">>, table |-> TableB],
      [kind |-> "file", name |-> <<"c", ".", "c", "s", "v">>, table |-> TableC],
      [kind |-> "file", name |-> <<"e", ".", "x", "l", "s", "x">>, table |-> TableE] }

Init ==
    /\ pc = "session"
    /\ UiIdle /\ NormIdle /\ CmpIdle /\ GuessIdle

\* The choice a select box has stored: none while it was not drawn.
Stored(col_name) == IF col_name = None THEN Pending ELSE col_name

\* The state after the script ran on the widgets' new state.
Rerun(f1, f2, chosen1, chosen2, pressed, interaction) ==
    LET r == ScriptRun(f1, f2, chosen1, chosen2, pressed)
    IN  /\ file1' = f1 /\ file2' = f2
        /\ col1_name' = r.col1_name /\ col2_name' = r.col2_name
        /\ run_compare' = r.run_compare
        /\ result' = r.result /\ warning' = r.warning
        /\ last' = interaction
        /\ UNCHANGED <<pc, normVars, cmpVars, guessVars>>

\* A file is put in uploader 1; its select box starts from its default.
UploadFile1 ==
    \E f \in Files :
        /\ f # file1 /\ f # file2
        /\ Rerun(f, file2, Pending, Stored(col2_name), FALSE, "upload")

UploadFile2 ==
    \E f \in Files :
        /\ f # file2 /\ f # file1
        /\ Rerun(file1, f, Stored(col1_name), Pending, FALSE, "upload")

RemoveFile1 ==
    /\ file1 # NoFile
    /\ Rerun(NoFile, file2, Pending, Pending, FALSE, "remove")

RemoveFile2 ==
    /\ file2 # NoFile
    /\ Rerun(file1, NoFile, Pending, Pending, FALSE, "remove")

\* The select boxes are drawn only with both tables loaded.
SelectColumn1 ==
    /\ file1 # NoFile /\ file2 # NoFile
    /\ \E i \in 1..Len(file1.table.columns) :
          /\ file1.table.columns[i] # col1_name
          /\ Rerun(file1, file2, file1.table.columns[i], Stored(col2_name),
                   FALSE, "select")

SelectColumn2 ==
    /\ file1 # NoFile /\ file2 # NoFile
    /\ \E i \in 1..Len(file2.table.columns) :
          /\ file2.table.columns[i] # col2_name
          /\ Rerun(file1, file2, Stored(col1_name), file2.table.columns[i],
                   FALSE, "select")

\* The button is drawn only with both tables loaded.
PressRunComparison ==
    /\ file1 # NoFile /\ file2 # NoFile
    /\ Rerun(file1, file2, Stored(col1_name), Stored(col2_name), TRUE, "press")

\* The download buttons are drawn only with a result.
ClickDownload ==
    /\ result # NoResult
    /\ Rerun(file1, file2, Stored(col1_name), Stored(col2_name), FALSE, "download")

Next ==
    \/ UploadFile1
    \/ UploadFile2
    \/ RemoveFile1
    \/ RemoveFile2
    \/ SelectColumn1
    \/ SelectColumn2
    \/ PressRunComparison
    \/ ClickDownload

Spec == Init /\ [][Next]_vars

(* What is claimed of the session.                                         *)

InputMissing ==
    \/ file1 = NoFile \/ file2 = NoFile
    \/ col1_name = None \/ col2_name = None

\* A full result: the three lists and the four numbers, consistent.
IsFullResult(r) ==
    /\ DOMAIN r = {"kind", "common", "only_in_1", "only_in_2",
                   "total1", "total2", "in_both", "total_unique"}
    /\ r.total1 = Len(r.common) + Len(r.only_in_1)
    /\ r.total2 = Len(r.common) + Len(r.only_in_2)
    /\ r.in_both = Len(r.common)
    /\ r.total_unique = Len(r.common) + Len(r.only_in_1) + Len(r.only_in_2)

\* C3: a run shows a result only with both tables, both selections and the
\* trigger, and then a full one; a trigger with an input missing shows the
\* warning and computes nothing; never a result and the warning together.
C3_ResultOrWarningNeverBoth ==
    /\ result # NoResult =>
          (~InputMissing /\ run_compare /\ IsFullResult(result))
    /\ (run_compare /\ ~InputMissing) => result # NoResult
    /\ (run_compare /\ InputMissing) => (warning /\ result = NoResult)
    /\ ~(result # NoResult /\ warning)
    /\ warning => run_compare

\* The trigger pressed while the second table has no column to select.
C3_Witness ==
    /\ last = "press" /\ run_compare
    /\ file1 # NoFile /\ file2 # NoFile
    /\ col1_name # None /\ col2_name = None
    /\ warning /\ result = NoResult

\* The comparison of the columns selected now in the tables loaded now.
CurrentComparison ==
    Comparison(Column(file1.table, col1_name), Column(file2.table, col2_name))

\* C10: a result is shown only by the run the trigger press caused and is
\* the comparison of that run's tables and selections; from a run showing a
\* result, any interaction but a press leads to a run with run_compare
\* false, no result and no warning; with a table missing run_compare is
\* false and neither is shown.
C10_NoResultPersists ==
    /\ [](result # NoResult =>
             (last = "press" /\ run_compare /\ result = CurrentComparison))
    /\ []((file1 = NoFile \/ file2 = NoFile) =>
             (~run_compare /\ result = NoResult /\ ~warning))
    /\ [][(result # NoResult /\ last' # "press") =>
             (~run_compare' /\ result' = NoResult /\ ~warning')]_vars

\* A download click on a displayed result: the run after it shows nothing.
C10_Witness ==
    /\ last = "download"
    /\ file1 # NoFile /\ file2 # NoFile
    /\ ~run_compare /\ result = NoResult /\ ~warning

=============================================================================
